---- MODULE Spec2Model ----
(***************************************************************************)
(* Model of the market-breadth data collector (src/data_collector.py):     *)
(* the ticker resolver, the series fetcher, the protected atomic store and *)
(* the batch orchestrator.                                                 *)
(*                                                                         *)
(* Dates are day numbers.  A series (a pandas DataFrame indexed by date)   *)
(* is a sequence of rows [date]; a file is a record telling what is at a   *)
(* path: nothing, a CSV (possibly cut short by an interrupted write) or    *)
(* bytes that do not parse.  The guards of the store read the index only,  *)
(* so the price columns of a row are left out.                             *)
(***************************************************************************)
EXTENDS Integers, Sequences, FiniteSets, TLC

VARIABLES
    pc,        \* control position of the process
    fs,        \* the price directory: path -> file
    ticker,    \* save_ticker_data's / the loop's current (feed form) ticker
    data,      \* the series in hand (fetched, or handed to save_ticker_data)
    result,    \* what save_ticker_data returned ("none" while it runs)
    before,    \* history: fs when the current save_ticker_data call began
               \* (between calls: fs as the last call, or the start, left it)
    prev,      \* history: the call before this one, when this one repeats it
    crashedAt, \* history: pc at the moment the process was interrupted
    cache,     \* the fallback cache file config.SP500_FALLBACK_CSV
    wiki,      \* history: what the remote ticker source answered in this run
    tickers,   \* the universe get_sp500_tickers returned
    cacheBefore, \* history: the cache file when the resolution began
    cacheWrite, \* history: how the cache write of this resolution ended
    now,       \* the day the run takes place
    i,         \* download_all_tickers: the loop counter
    fetched,   \* what download_ticker_data returned for the current symbol
    stats,     \* download_all_tickers: the tally
    pauses,    \* the sleeps of this run, in order
    feedCalls, \* history: the calls of the price feed in this run
    returned,  \* what run_data_collection returned, None before
    feed,      \* history: what the price feed answered for the current symbol
    counted,   \* history: the counter the current symbol incremented
    report     \* the coverage figures and warnings run_data_collection logged

storeVars == <<pc, fs, ticker, data, result, before, prev, crashedAt>>
storeVars_but_pc == <<fs, ticker, data, result, before, prev, crashedAt>>
resolverVars == <<cache, wiki, tickers, cacheBefore, cacheWrite>>
runVars == <<now, i, fetched, stats, pauses, feedCalls, returned, feed, counted, report>>
vars == <<storeVars, resolverVars, runVars>>

----------------------------------------------------------------------------
(* Bounds of the model *)

\* dates range over 1..MaxDay
MaxDay == 13
\* a generated series starts on one of the days 1..MaxFirst
MaxFirst == 2

----------------------------------------------------------------------------
(* Symbols and paths *)

\* A symbol is a sequence of string tokens; "." and "-" are tokens of
\* their own, so that sanitize_ticker can be computed.
sanitize_ticker(t) == [k \in DOMAIN t |-> IF t[k] = "." THEN "-" ELSE t[k]]

\* the symbols of the small universes
Symbols == { <<"AAA">>, <<"BRK", ".", "B">>, <<"BRK", "-", "B">> }

\* the symbol save_ticker_data is called for when it is driven directly
StoreTicker == <<"AAA">>

PriceKeys == { sanitize_ticker(t) : t \in Symbols }

\* filepath = config.PRICES_DIR / f"{ticker}.csv"
FinalPath(t) == <<t, "csv">>

TempPath_direct(t) == <<t, "csv">>
\* temp_path = filepath.with_suffix('.tmp')
TempPath(t) == <<FinalPath(t)[1], "tmp">>

Paths == { FinalPath(t) : t \in PriceKeys } \cup { <<t, "tmp">> : t \in PriceKeys }

----------------------------------------------------------------------------
(* Series and files *)

Row(d) == [date |-> d]

\* the series with n rows, the first dated `first`, the others the n-1
\* days up to `last`
Bars(first, last, n) ==
    [k \in 1..n |-> IF k = 1 THEN Row(first) ELSE Row(last - n + k)]

\* the non-empty series the store is driven with: every combination of
\* first date, last date and length the bounds allow
SeriesShapes ==
    { sh \in (1..MaxFirst) \X (1..MaxDay) \X (1..MaxDay) :
        \/ sh[3] = 1 /\ sh[1] = sh[2]
        \/ sh[3] >= 2 /\ sh[2] - sh[1] >= sh[3] - 1 }

StoreInputs ==
    { Bars(sh[1], sh[2], sh[3]) : sh \in SeriesShapes }

Absent == [kind |-> "absent", lines |-> <<>>, complete |-> TRUE]
Garbage == [kind |-> "garbage", lines |-> <<>>, complete |-> TRUE]

\* DataFrame.to_csv: one line <<date>> per row, after the header
to_csv(df) ==
    [kind |-> "csv", lines |-> [k \in DOMAIN df |-> <<df[k].date>>], complete |-> TRUE]

\* what an interrupted or failed to_csv leaves: the first k lines
PartialCsv(df, k) ==
    [kind |-> "csv", lines |-> SubSeq(to_csv(df).lines, 1, k), complete |-> FALSE]

\* the cuts the model follows: the header alone, all lines but the last
PartialLengths(df) == {0, Len(df) - 1}

Exists(f) == f.kind # "absent"

\* pd.read_csv(filepath, index_col=0, parse_dates=True) raises on bytes
\* that are no CSV
ReadRaises(f) == f.kind # "csv"
read_csv(f) == [k \in DOMAIN f.lines |-> Row(f.lines[k][1])]

----------------------------------------------------------------------------
(* The ticker resolver *)

\* Python's None and a value that is not None
None == [none |-> TRUE, val |-> <<>>]
Some(v) == [none |-> FALSE, val |-> v]

\* the text of a table cell is a sequence of tokens; str.strip() drops the
\* white space at both ends
Whitespace == {" ", "\n"}
RECURSIVE strip(_)
strip(text) ==
    IF text = <<>> THEN text
    ELSE IF Head(text) \in Whitespace THEN strip(Tail(text))
    ELSE IF text[Len(text)] \in Whitespace THEN strip(SubSeq(text, 1, Len(text) - 1))
    ELSE text

\* What requests.get + BeautifulSoup give: an exception, a page without
\* the 'constituents' table, or the <tr> rows of that table, each row the
\* texts of its <td> cells (the header row has none).
NoAnswer == [kind |-> "none", trs |-> <<>>]
WikiError == [kind |-> "error", trs |-> <<>>]
WikiNoTable == [kind |-> "notable", trs |-> <<>>]

\* the k-th constituent of a generated table
GenSymbol(k) == <<"T", ToString(k)>>
GenList(n) == [k \in 1..n |-> GenSymbol(k)]

\* a page whose table has a header row, n constituent rows and, after
\* them, `blank` rows without any <td>
WikiTable(n, blank) ==
    [kind |-> "table",
     trs |-> [k \in 1..(1 + n + blank) |->
                IF k = 1 \/ k > 1 + n THEN <<>>
                ELSE << GenSymbol(k - 1) \o <<"\n">>, <<"Company", " ", ToString(k - 1)>> >>]]

\* lines 62-69: rows = table.find_all('tr')[1:]; the first cell of every
\* row that has cells, stripped
ExtractTickers(trs) ==
    LET rows == IF trs = <<>> THEN <<>> ELSE Tail(trs)
        withCols == SelectSeq(rows, LAMBDA cols : Len(cols) > 0)
    IN  [k \in DOMAIN withCols |-> strip(withCols[k][1])]

TooFew_inclusive(found) == Len(found) <= 400
\* line 71: len(tickers) < 400
TooFew(found) == Len(found) < 400

\* fetch_sp500_tickers_from_wiki: None on an exception, a missing table or
\* too few tickers
fetch_sp500_tickers_from_wiki(answer) ==
    IF answer.kind # "table" THEN None
    ELSE IF TooFew(ExtractTickers(answer.trs)) THEN None
    ELSE Some(ExtractTickers(answer.trs))

\* The cache file: absent, bytes that do not parse, or a CSV with one
\* named column and one line per ticker.
NoCache == [kind |-> "absent", column |-> "", lines |-> <<>>]
BadCache == [kind |-> "garbage", column |-> "", lines |-> <<>>]
CacheCsv(column, lines) == [kind |-> "csv", column |-> column, lines |-> lines]

\* load_fallback_tickers: [] when the file is missing, cannot be parsed or
\* has no 'ticker' column
load_fallback_tickers(file) ==
    IF file.kind = "absent" THEN <<>>
    ELSE IF file.kind # "csv" THEN <<>>
    ELSE IF file.column # "ticker" THEN <<>>
    ELSE file.lines

\* how the write of the cache ends: done, refused before the file is
\* opened, or broken off after the header or before the last line
WriteOutcomes == {"ok", "refused", "cut_head", "cut_tail"}

save_fallback_tickers_append(file, list, how) ==
    CacheCsv("ticker", load_fallback_tickers(file) \o list)
\* save_fallback_tickers: pd.DataFrame({'ticker': tickers}).to_csv(...,
\* index=False) overwrites the file; an exception is logged and swallowed
save_fallback_tickers(file, list, how) ==
    CASE how = "ok" -> CacheCsv("ticker", list)
      [] how = "refused" -> file
      [] how = "cut_head" -> CacheCsv("ticker", <<>>)
      [] OTHER -> CacheCsv("ticker", SubSeq(list, 1, Len(list) - 1))

get_sp500_tickers_empty(answer, file, how) ==
    [raised |-> FALSE, tickers |-> load_fallback_tickers(file), cache |-> file, wrote |-> FALSE]
\* get_sp500_tickers: what it returns or that it raises, and the cache
\* file it leaves
get_sp500_tickers(answer, file, how) ==
    LET remote == fetch_sp500_tickers_from_wiki(answer)
        fallback == load_fallback_tickers(file)
    IN  IF ~remote.none /\ Len(remote.val) > 0
          THEN [raised |-> FALSE, tickers |-> remote.val,
                cache |-> save_fallback_tickers(file, remote.val, how), wrote |-> TRUE]
        ELSE IF Len(fallback) = 0
          THEN [raised |-> TRUE, tickers |-> <<>>, cache |-> file, wrote |-> FALSE]
        ELSE [raised |-> FALSE, tickers |-> fallback, cache |-> file, wrote |-> FALSE]

\* run_data_collection, line 294: the universe is resolved, or the
\* exception leaves the run
Resolve(answers) ==
    /\ pc = "start"
    /\ \E answer \in answers, how \in WriteOutcomes :
          LET r == get_sp500_tickers(answer, cache, how)
          IN  /\ wiki' = answer
              /\ cache' = r.cache
              /\ tickers' = r.tickers
              /\ cacheBefore' = cache
              /\ cacheWrite' = IF r.wrote THEN how ELSE "none"
              /\ pc' = IF r.raised THEN "raised" ELSE "resolved"
    /\ UNCHANGED <<storeVars_but_pc, runVars>>

----------------------------------------------------------------------------
(* save_ticker_data: the protection rules *)

\* data.index[0], data.index[-1]; both raise IndexError on an empty frame
first_date(df) == df[1].date
last_date(df) == df[Len(df)].date

OlderLast_off(new, old) == FALSE
\* OCHRANA 1: new_last_date < old_last_date
OlderLast(new, old) == last_date(new) < last_date(old)

LaterFirst_off(new, old) == FALSE
\* OCHRANA 2: new_first_date > old_first_date
LaterFirst(new, old) == first_date(new) > first_date(old)

min_acceptable_rows_loose(old_data) == Len(old_data) - 11
\* min_acceptable_rows = len(old_data) - 10
min_acceptable_rows(old_data) == Len(old_data) - 10

\* OCHRANA 3: len(data) < min_acceptable_rows
FewerRows(new, old) == Len(new) < min_acceptable_rows(old)

CheckExisting_inclusive(f, new) ==
    IF ~Exists(f) \/ ReadRaises(f) THEN "write"
    ELSE IF Len(new) = 0 \/ Len(read_csv(f)) = 0 THEN "write"
    ELSE IF last_date(new) <= last_date(read_csv(f)) THEN "protected"
    ELSE IF LaterFirst(new, read_csv(f)) THEN "protected"
    ELSE IF FewerRows(new, read_csv(f)) THEN "protected"
    ELSE "write"

CheckExisting_strict(f, new) ==
    IF ~Exists(f) THEN "write"
    ELSE IF ReadRaises(f) THEN "protected"
    ELSE IF Len(new) = 0 \/ Len(read_csv(f)) = 0 THEN "write"
    ELSE IF OlderLast(new, read_csv(f)) THEN "protected"
    ELSE IF LaterFirst(new, read_csv(f)) THEN "protected"
    ELSE IF FewerRows(new, read_csv(f)) THEN "protected"
    ELSE "write"

\* The body of `if filepath.exists(): try: ... except Exception` (lines
\* 167-208): "protected" when a rule matches, "write" when the code goes on
\* to the atomic write: no file, a file that cannot be read, a frame
\* without rows on either side (IndexError), or no rule matching.
CheckExisting(f, new) ==
    IF ~Exists(f) THEN "write"
    ELSE IF ReadRaises(f) THEN "write"
    ELSE IF Len(new) = 0 \/ Len(read_csv(f)) = 0 THEN "write"
    ELSE IF OlderLast(new, read_csv(f)) THEN "protected"
    ELSE IF LaterFirst(new, read_csv(f)) THEN "protected"
    ELSE IF FewerRows(new, read_csv(f)) THEN "protected"
    ELSE "write"

----------------------------------------------------------------------------
(* save_ticker_data: the steps *)

InSave == {"sv_check", "sv_write", "sv_writing", "sv_replace", "sv_except", "sv_ret"}

\* entry of save_ticker_data(t, d)
EnterSave(t, d) ==
    /\ ticker' = t
    /\ data' = d
    /\ result' = "none"
    /\ before' = fs
    /\ pc' = "sv_check"

\* lines 164-208: the existing file is compared with the new data
SaveCheck ==
    /\ pc = "sv_check"
    /\ IF CheckExisting(fs[FinalPath(ticker)], data) = "protected"
          THEN /\ result' = "protected"
               /\ pc' = "sv_ret"
          ELSE /\ result' = result
               /\ pc' = "sv_write"
    /\ UNCHANGED <<fs, ticker, data, before, prev, crashedAt, resolverVars, runVars>>

\* line 214, data.to_csv(temp_path): the file is created (any older file
\* at that path is truncated) and the first k lines reach it
ToCsvOpen ==
    /\ pc = "sv_write"
    /\ \E k \in PartialLengths(data) :
          fs' = [fs EXCEPT ![TempPath(ticker)] = PartialCsv(data, k)]
    /\ pc' = "sv_writing"
    /\ UNCHANGED <<ticker, data, result, before, prev, crashedAt, resolverVars, runVars>>

\* line 214 raises before the file is opened
ToCsvOpenFails ==
    /\ pc = "sv_write"
    /\ pc' = "sv_except"
    /\ UNCHANGED <<fs, ticker, data, result, before, prev, crashedAt, resolverVars, runVars>>

\* line 214 completes: the temporary file holds the whole series
ToCsvDone ==
    /\ pc = "sv_writing"
    /\ fs' = [fs EXCEPT ![TempPath(ticker)] = to_csv(data)]
    /\ pc' = "sv_replace"
    /\ UNCHANGED <<ticker, data, result, before, prev, crashedAt, resolverVars, runVars>>

\* line 214 raises while writing
ToCsvFails ==
    /\ pc = "sv_writing"
    /\ pc' = "sv_except"
    /\ UNCHANGED <<fs, ticker, data, result, before, prev, crashedAt, resolverVars, runVars>>

ReturnAfterReplace_wrong == "protected"
\* line 217: return "saved"
ReturnAfterReplace == "saved"

\* lines 215-217, temp_path.replace(filepath): one atomic rename
Replace ==
    /\ pc = "sv_replace"
    /\ fs' = [fs EXCEPT ![FinalPath(ticker)] = fs[TempPath(ticker)],
                         ![TempPath(ticker)] = Absent]
    /\ result' = ReturnAfterReplace
    /\ pc' = "sv_ret"
    /\ UNCHANGED <<ticker, data, before, prev, crashedAt, resolverVars, runVars>>

\* line 215 raises
ReplaceFails ==
    /\ pc = "sv_replace"
    /\ pc' = "sv_except"
    /\ UNCHANGED <<fs, ticker, data, result, before, prev, crashedAt, resolverVars, runVars>>

UnlinkedOnFailure_final(t) == FinalPath(t)
\* lines 220-221: if temp_path.exists(): temp_path.unlink()
UnlinkedOnFailure(t) == TempPath(t)

\* lines 219-226: the temporary file is unlinked if it exists, the
\* exception is re-raised, caught by the outer handler, "error" returned
SaveExcept ==
    /\ pc = "sv_except"
    /\ fs' = [fs EXCEPT ![UnlinkedOnFailure(ticker)] = Absent]
    /\ result' = "error"
    /\ pc' = "sv_ret"
    /\ UNCHANGED <<ticker, data, before, prev, crashedAt, resolverVars, runVars>>

\* the process is killed inside save_ticker_data
CrashInSave ==
    /\ pc \in InSave \ {"sv_ret"}
    /\ crashedAt' = pc
    /\ pc' = "crashed"
    /\ UNCHANGED <<fs, ticker, data, result, before, prev, resolverVars, runVars>>

SaveStep ==
    \/ SaveCheck
    \/ ToCsvOpen
    \/ ToCsvOpenFails
    \/ ToCsvDone
    \/ ToCsvFails
    \/ Replace
    \/ ReplaceFails
    \/ SaveExcept

\* what is remembered of a completed call
Completed == [data |-> data, result |-> result, after |-> fs[FinalPath(ticker)]]
NoCall == [data |-> <<>>, result |-> "none", after |-> Absent]

----------------------------------------------------------------------------
(* The series fetcher and the batch orchestrator *)

\* The configuration the program is run with.  config.py ships a history
\* window of 500 trading days and batches of 50 tickers; the model runs the
\* same code with a short window and small batches, so that frames around
\* the minimum length and runs across a batch boundary stay small.
HISTORY_TRADING_DAYS == 10
MAX_TICKERS_PER_BATCH == 2

\* config.py, lines 52-53: the thresholds of the coverage warnings
MIN_COVERAGE_PERCENT == 90
MIN_VALID_TICKERS == 450

\* the day the runs of the model take place
Today == 20

\* line 231: datetime.now() - timedelta(days=config.HISTORY_TRADING_DAYS * 1.5)
start_date(today) == today - (HISTORY_TRADING_DAYS * 3) \div 2

\* What yf.download gives: an exception or a frame.  The frames of the
\* model start on start_date or a day later, end today or a day earlier
\* and hold one of RowCounts rows, around 80% of the history window.
FirstLags == {0, 1}
LastLags == {0, 1}
RowCounts == {HISTORY_TRADING_DAYS - 3, HISTORY_TRADING_DAYS - 2, HISTORY_TRADING_DAYS + 1}
FeedRaises == [kind |-> "raise", df |-> <<>>]
FeedFrame(df) == [kind |-> "frame", df |-> df]
FeedAnswers(start, today) ==
    {FeedRaises, FeedFrame(<<>>)}
    \cup { FeedFrame(Bars(start + a, today - b, n)) : a \in FirstLags, b \in LastLags, n \in RowCounts }

\* no call of the feed is being processed
NoFeed == [kind |-> "none", df |-> <<>>]

\* the comparison of line 144 for a frame of `rows` rows and a history
\* window of `window` days: rows < window * 0.8
BelowMinimum(rows, window) == rows * 10 < window * 8

TooShort_lenient(df) == Len(df) * 10 < HISTORY_TRADING_DAYS * 7
\* line 144: len(data) < config.HISTORY_TRADING_DAYS * 0.8
TooShort(df) == BelowMinimum(Len(df), HISTORY_TRADING_DAYS)

download_ticker_data_lax(answer) ==
    IF answer.kind = "raise" THEN None ELSE Some(answer.df)
\* download_ticker_data: None on an exception, an empty frame or a frame
\* that is too short
download_ticker_data(answer) ==
    IF answer.kind = "raise" THEN None
    ELSE IF Len(answer.df) = 0 THEN None
    ELSE IF TooShort(answer.df) THEN None
    ELSE Some(answer.df)

NoStats == [total |-> 0, success |-> 0, protected |-> 0, failed |-> 0, empty |-> 0]

\* the variables of a run before it starts
RunIdle ==
    /\ now = Today
    /\ i = 0
    /\ fetched = None
    /\ stats = NoStats
    /\ pauses = <<>>
    /\ feedCalls = 0
    /\ returned = None
    /\ feed = NoFeed
    /\ counted = "none"
    /\ report = None

\* lines 231-242: the tally is set up
BeginDownload ==
    /\ pc = "resolved"
    /\ i' = 0
    /\ stats' = [NoStats EXCEPT !.total = Len(tickers)]
    /\ pc' = "loop"
    /\ UNCHANGED <<fs, ticker, data, result, before, prev, crashedAt, resolverVars,
                   now, fetched, pauses, feedCalls, returned, feed, counted, report>>

LoopDone_early(k, n) == k >= n - 1
\* line 244, for i, ticker in enumerate(tickers, 1): the loop is over
\* once k of the n tickers have been taken
LoopDone(k, n) == k = n

\* lines 244-252: the next symbol is put in feed form and fetched; the
\* feed gives one of `answers`
FetchAny(answers) ==
    /\ pc = "loop"
    /\ ~LoopDone(i, Len(tickers))
    /\ i' = i + 1
    /\ ticker' = sanitize_ticker(tickers[i + 1])
    /\ \E answer \in answers :
          /\ feed' = answer
          /\ fetched' = download_ticker_data(answer)
    /\ feedCalls' = feedCalls + 1
    /\ pc' = "fetched"
    /\ UNCHANGED <<fs, data, result, before, prev, crashedAt, resolverVars,
                   now, stats, pauses, returned, counted, report>>

Fetch == FetchAny(FeedAnswers(start_date(now), now))

\* lines 254-255: data that is there and not empty goes to the store
Store ==
    /\ pc = "fetched"
    /\ ~fetched.none /\ Len(fetched.val) > 0
    /\ EnterSave(ticker, fetched.val)
    /\ UNCHANGED <<fs, prev, crashedAt, resolverVars, runVars>>

\* lines 264-267: an empty frame counts as empty, None as failed
Skip ==
    /\ pc = "fetched"
    /\ ~(~fetched.none /\ Len(fetched.val) > 0)
    /\ IF ~fetched.none /\ Len(fetched.val) = 0
          THEN /\ stats' = [stats EXCEPT !.empty = @ + 1]
               /\ counted' = "empty"
          ELSE /\ stats' = [stats EXCEPT !.failed = @ + 1]
               /\ counted' = "failed"
    /\ pc' = "pause"
    /\ UNCHANGED <<fs, ticker, data, result, before, prev, crashedAt, resolverVars,
                   now, i, fetched, pauses, feedCalls, returned, feed, report>>

\* lines 257-262: the counter the store's answer increments
CounterOf_dropping(res) ==
    CASE res = "saved" -> "success"
      [] res = "protected" -> "protected"
      [] OTHER -> "none"
CounterOf(res) ==
    CASE res = "saved" -> "success"
      [] res = "protected" -> "protected"
      [] res = "error" -> "failed"
      [] OTHER -> "none"

\* lines 257-262: the store's answer is counted
Tally ==
    /\ pc = "sv_ret"
    /\ stats' = IF CounterOf(result) = "none" THEN stats
                ELSE [stats EXCEPT ![CounterOf(result)] = @ + 1]
    /\ counted' = CounterOf(result)
    /\ before' = fs
    /\ pc' = "pause"
    /\ UNCHANGED <<fs, ticker, data, result, prev, crashedAt, resolverVars,
                   now, i, fetched, pauses, feedCalls, returned, feed, report>>

IsBatchEnd_shifted(k) == k % MAX_TICKERS_PER_BATCH = 1
\* line 270: i % config.MAX_TICKERS_PER_BATCH == 0
IsBatchEnd(k) == k % MAX_TICKERS_PER_BATCH = 0

\* lines 269-274: the longer sleep after every MAX_TICKERS_PER_BATCH-th
\* symbol, the short one after the others; the iteration ends, and its
\* data, never read again, are dropped
Pause ==
    /\ pc = "pause"
    /\ pauses' = Append(pauses, IF IsBatchEnd(i) THEN "long" ELSE "short")
    /\ pc' = "loop"
    /\ fetched' = None
    /\ data' = <<>>
    /\ result' = "none"
    /\ feed' = NoFeed
    /\ counted' = "none"
    /\ UNCHANGED <<fs, ticker, before, prev, crashedAt, resolverVars,
                   now, i, stats, feedCalls, returned, report>>

effective_ok_lenient(st) == st.success + st.protected + st.failed
\* line 300: effective_ok = stats['success'] + stats['protected']
effective_ok(st) == st.success + st.protected

\* line 301: (effective_ok / stats['total'] * 100) if stats['total'] > 0
\* else 0, kept as the fraction num / den
coverage_pct(st) ==
    IF st.total > 0 THEN [num |-> effective_ok(st) * 100, den |-> st.total]
    ELSE [num |-> 0, den |-> 1]

\* lines 305-315: the warnings logged, one for the count, one for the
\* percentage; nothing is raised
Warnings(st) ==
    (IF effective_ok(st) < MIN_VALID_TICKERS THEN {"count"} ELSE {})
    \cup (IF coverage_pct(st).num < MIN_COVERAGE_PERCENT * coverage_pct(st).den
            THEN {"percent"} ELSE {})

\* lines 299-315: what run_data_collection computes and logs of the tally
Report(st) ==
    [effective_ok |-> effective_ok(st), coverage_pct |-> coverage_pct(st),
     warnings |-> Warnings(st)]

\* lines 276-318: the loop is over, the coverage is computed and logged,
\* the statistics are returned
Finish ==
    /\ pc = "loop"
    /\ LoopDone(i, Len(tickers))
    /\ report' = Some(Report(stats))
    /\ returned' = Some(stats)
    /\ pc' = "done"
    /\ UNCHANGED <<fs, ticker, data, result, before, prev, crashedAt, resolverVars,
                   now, i, fetched, stats, pauses, feedCalls, feed, counted>>

----------------------------------------------------------------------------
(* The store driven directly: any sequence of save_ticker_data calls for    *)
(* one symbol, each possibly repeated with the same data, any of them       *)
(* interrupted.                                                             *)

\* what may be at the final path before the first call: nothing, a series
\* an earlier run saved, a CSV without rows, bytes that do not parse
InitialFiles == {Absent, Garbage, to_csv(<<>>)} \cup { to_csv(d) : d \in StoreInputs }

\* what may be at the temporary path: nothing, or what an interrupted
\* earlier run left
InitialTemps == {Absent, PartialCsv(Bars(1, 2, 2), 1)}

InitStore ==
    /\ pc = "idle"
    /\ \E f \in InitialFiles, g \in InitialTemps :
          fs = [p \in Paths |-> IF p = FinalPath(StoreTicker) THEN f
                                ELSE IF p = TempPath(StoreTicker) THEN g
                                ELSE Absent]
    /\ ticker = StoreTicker
    /\ data = <<>>
    /\ result = "none"
    /\ before = fs
    /\ prev = NoCall
    /\ crashedAt = "none"
    /\ cache = NoCache
    /\ wiki = NoAnswer
    /\ tickers = <<>>
    /\ cacheBefore = cache
    /\ cacheWrite = "none"
    /\ RunIdle

CallSave ==
    /\ pc = "idle"
    /\ \E d \in StoreInputs : EnterSave(StoreTicker, d)
    /\ UNCHANGED <<fs, prev, crashedAt, resolverVars, runVars>>

\* the same series is saved once more, right after the call returned
CallSaveAgain ==
    /\ pc = "sv_ret"
    /\ prev = NoCall
    /\ prev' = Completed
    /\ EnterSave(ticker, data)
    /\ UNCHANGED <<fs, crashedAt, resolverVars, runVars>>

SaveReturns ==
    /\ pc = "sv_ret"
    /\ pc' = "idle"
    /\ data' = <<>>
    /\ result' = "none"
    /\ before' = fs
    /\ prev' = NoCall
    /\ UNCHANGED <<fs, ticker, crashedAt, resolverVars, runVars>>

NextStore ==
    \/ CallSave
    \/ CallSaveAgain
    \/ SaveStep
    \/ SaveReturns
    \/ CrashInSave

SpecStore == InitStore /\ [][NextStore]_vars

----------------------------------------------------------------------------
(* Properties of the protected store *)

\* the file at the current symbol's final path when the call began, and now
OldFile == before[FinalPath(ticker)]
CurFile == fs[FinalPath(ticker)]

\* a file holding a series that can be read and compared
HasSeries(f) == f.kind = "csv" /\ Len(f.lines) > 0
FileFirst(f) == f.lines[1][1]
FileLast(f) == f.lines[Len(f.lines)][1]
FileRows(f) == Len(f.lines)
NewFirst == data[1].date
NewLast == data[Len(data)].date

\* a call is running, has just returned, or was interrupted
CallOpen == pc \in InSave \cup {"crashed"}

\* C1 (regression guard): when the existing series is readable, the last
\* date at the final path never falls below its value at the call's start,
\* at any point of the call, and a new series whose last date is older is
\* answered "protected" with the file left as it was.
C1_RegressionGuard ==
    (CallOpen /\ HasSeries(OldFile)) =>
        /\ HasSeries(CurFile)
        /\ FileLast(CurFile) >= FileLast(OldFile)
        /\ (pc = "sv_ret" /\ NewLast < FileLast(OldFile)) =>
               (result = "protected" /\ CurFile = OldFile)

C1_Witness ==
    /\ pc = "sv_ret"
    /\ HasSeries(OldFile)
    /\ NewLast < FileLast(OldFile)
    /\ NewFirst <= FileFirst(OldFile)
    /\ Len(data) >= FileRows(OldFile) - 10
    /\ result = "protected"

\* C2 (window-shift guard): when the existing series is readable, the
\* first date at the final path never rises above its value at the call's
\* start, and a new series that starts later is answered "protected" with
\* the file left as it was.
C2_WindowShiftGuard ==
    (CallOpen /\ HasSeries(OldFile)) =>
        /\ HasSeries(CurFile)
        /\ FileFirst(CurFile) <= FileFirst(OldFile)
        /\ (pc = "sv_ret" /\ NewFirst > FileFirst(OldFile)) =>
               (result = "protected" /\ CurFile = OldFile)

C2_Witness ==
    /\ pc = "sv_ret"
    /\ HasSeries(OldFile)
    /\ NewFirst > FileFirst(OldFile)
    /\ NewLast >= FileLast(OldFile)
    /\ Len(data) >= FileRows(OldFile) - 10
    /\ result = "protected"

\* C3 (shrinkage guard): when the existing series is readable, the file at
\* the final path never holds fewer rows than it held at the call's start
\* minus 10, whatever the outcome; a new series of exactly len(old) - 10
\* rows that no date rule rejects is accepted, one of len(old) - 11 rows is
\* rejected.
C3_ShrinkageGuard ==
    (CallOpen /\ HasSeries(OldFile)) =>
        /\ FileRows(CurFile) >= FileRows(OldFile) - 10
        /\ (/\ pc = "sv_ret"
            /\ Len(data) = FileRows(OldFile) - 10
            /\ NewLast >= FileLast(OldFile)
            /\ NewFirst <= FileFirst(OldFile)) => result # "protected"
        /\ (pc = "sv_ret" /\ Len(data) = FileRows(OldFile) - 11) =>
               (result = "protected" /\ CurFile = OldFile)

\* both sides of the boundary: 12 rows replaced by 2, with the same dates at
\* both ends
C3_Witness ==
    /\ pc = "sv_ret"
    /\ HasSeries(OldFile)
    /\ Len(data) = FileRows(OldFile) - 10
    /\ result = "saved"
    /\ FileRows(CurFile) = FileRows(OldFile) - 10

\* C4 (atomicity): no final path ever holds a file cut short, and from the
\* start of a call to its return or its interruption the symbol's final
\* path holds either what it held before (possibly nothing) or the whole
\* new series.
C4_Atomicity ==
    /\ \A t \in PriceKeys : fs[FinalPath(t)].complete
    /\ CallOpen => (CurFile = OldFile \/ CurFile = to_csv(data))

\* interrupted while the temporary file was half written, over an
\* existing series
C4_Witness ==
    /\ pc = "crashed"
    /\ crashedAt = "sv_writing"
    /\ HasSeries(OldFile)
    /\ ~fs[TempPath(ticker)].complete
    /\ Len(fs[TempPath(ticker)].lines) > 0

\* C5 (protected leaves everything as it was): a call that returns
\* "protected" found a readable series one of the three rules rejects, and
\* neither the final path nor the temporary path was written.
C5_ProtectedUnchanged ==
    (pc = "sv_ret" /\ result = "protected") =>
        /\ fs = before
        /\ HasSeries(OldFile)
        /\ \/ NewLast < FileLast(OldFile)
           \/ NewFirst > FileFirst(OldFile)
           \/ Len(data) < FileRows(OldFile) - 10

\* the scenario of the specification, in days of the model: Day1..Day13 on
\* disk, Day1..Day12 fetched
C5_Witness ==
    /\ pc = "sv_ret"
    /\ result = "protected"
    /\ OldFile = to_csv(Bars(1, MaxDay, MaxDay))
    /\ data = Bars(1, MaxDay - 1, MaxDay - 1)

\* the existing series is accepted for overwriting
Accepts ==
    \/ ~Exists(OldFile)
    \/ /\ HasSeries(OldFile)
       /\ NewLast >= FileLast(OldFile)
       /\ NewFirst <= FileFirst(OldFile)
       /\ Len(data) >= FileRows(OldFile) - 10

\* C6 (acceptance): with no existing file, or a readable one that no rule
\* rejects, a call whose write does not fail returns "saved" and the final
\* path then reads back as exactly the new series; "protected" is returned
\* exactly when the existing series is readable and a rule rejects.
C6_Acceptance ==
    pc = "sv_ret" =>
        /\ (Accepts /\ result # "error") =>
               /\ result = "saved"
               /\ ~ReadRaises(CurFile)
               /\ read_csv(CurFile) = data
               /\ FileRows(CurFile) = Len(data)
        /\ result = "protected" <=> (HasSeries(OldFile) /\ ~Accepts)

\* a longer series replaces a readable shorter one
C6_Witness ==
    /\ pc = "sv_ret"
    /\ result = "saved"
    /\ HasSeries(OldFile)
    /\ Len(data) > FileRows(OldFile)
    /\ read_csv(CurFile) = data

\* C7 as stated (idempotence): after the same series was saved twice in a
\* row, the final path holds what it held after the first save.
C7_Idempotent_AsStated ==
    (pc = "sv_ret" /\ prev # NoCall) => CurFile = prev.after

\* C7 as amended: the same, provided the first save did not return
\* "error"; the second save is then "protected", or "saved" with the very
\* content the first one left, or "error" with the file untouched.
C7_Idempotent ==
    (pc = "sv_ret" /\ prev # NoCall /\ prev.result # "error") =>
        /\ CurFile = prev.after
        /\ prev.result = "protected" => result = "protected"
        /\ result = "saved" => prev.after = to_csv(data)

\* saved, then saved again over its own output
C7_Witness ==
    /\ pc = "sv_ret"
    /\ prev # NoCall
    /\ prev.result = "saved"
    /\ result = "saved"
    /\ HasSeries(OldFile)

----------------------------------------------------------------------------
(* The resolver driven directly: any sequence of resolutions, the cache     *)
(* kept from one to the next.                                               *)

\* the remote answers: a failure, a page without the table, tables around
\* the minimum of 400, one of them with a row that has no cell
WikiAnswers ==
    {WikiError, WikiNoTable}
    \cup { WikiTable(n, 0) : n \in {0, 1, 399, 400, 401, 410} }
    \cup { WikiTable(399, 1), WikiTable(400, 1) }

\* the small universes a hand-written cache may hold
SmallUniverses ==
    { << <<"AAA">> >>,
      << <<"AAA">>, <<"BRK", ".", "B">> >>,
      << <<"BRK", ".", "B">>, <<"BRK", "-", "B">>, <<"AAA">> >> }

InitialCaches ==
    {NoCache, BadCache, CacheCsv("symbol", GenList(2)), CacheCsv("ticker", <<>>),
     CacheCsv("ticker", GenList(460))}
    \cup { CacheCsv("ticker", u) : u \in SmallUniverses }

InitResolve ==
    /\ pc = "start"
    /\ cache \in InitialCaches
    /\ wiki = NoAnswer
    /\ tickers = <<>>
    /\ cacheBefore = cache
    /\ cacheWrite = "none"
    /\ fs = [p \in Paths |-> Absent]
    /\ ticker = StoreTicker
    /\ data = <<>>
    /\ result = "none"
    /\ before = fs
    /\ prev = NoCall
    /\ crashedAt = "none"
    /\ RunIdle

\* the next resolution begins
ResolveAgain ==
    /\ pc \in {"resolved", "raised"}
    /\ pc' = "start"
    /\ wiki' = NoAnswer
    /\ tickers' = <<>>
    /\ cacheBefore' = cache
    /\ cacheWrite' = "none"
    /\ UNCHANGED <<cache, fs, ticker, data, result, before, prev, crashedAt, runVars>>

NextResolve ==
    \/ Resolve(WikiAnswers)
    \/ ResolveAgain

SpecResolve == InitResolve /\ [][NextResolve]_vars

----------------------------------------------------------------------------
(* Properties of the resolver *)

Resolved == pc \in {"resolved", "raised"}

\* the remote attempt of this resolution succeeded: a table was fetched
\* and at least 400 tickers were extracted from it
RemoteOk == wiki.kind = "table" /\ Len(ExtractTickers(wiki.trs)) >= 400

\* the cache file holds exactly this list under the column 'ticker'
CacheHolds(list) ==
    cache.kind = "csv" /\ cache.column = "ticker" /\ cache.lines = list

\* C8 (remote or fallback, never a mix): after a successful remote attempt
\* with at least 400 tickers the resolution returns exactly the extracted
\* list; after any other remote attempt whatever it returns is exactly the
\* content of the fallback cache, which is not empty.
C8_RemoteOrFallback ==
    Resolved =>
        /\ RemoteOk => (pc = "resolved" /\ tickers = ExtractTickers(wiki.trs))
        /\ (~RemoteOk /\ pc = "resolved") =>
               /\ cacheBefore.kind = "csv"
               /\ cacheBefore.column = "ticker"
               /\ tickers = cacheBefore.lines
               /\ tickers # <<>>

\* 399 tickers extracted, the cached 460 returned
C8_Witness ==
    /\ pc = "resolved"
    /\ wiki.kind = "table"
    /\ Len(ExtractTickers(wiki.trs)) = 399
    /\ Len(tickers) = 460

\* C9 as stated (cache write discipline): after a remote success the
\* cache holds exactly the returned universe; on the fallback path and on
\* the fatal path the cache file is what it was.
C9_CacheWrite_AsStated ==
    Resolved =>
        /\ RemoteOk => CacheHolds(tickers)
        /\ ~RemoteOk => cache = cacheBefore

\* a leading part of the list, cut at a line
IsPrefix(lines, list) ==
    Len(lines) <= Len(list) /\ lines = SubSeq(list, 1, Len(lines))

\* C9 as amended: the cache is written exactly when the remote attempt
\* succeeded; when that write succeeds the cache holds exactly the returned
\* universe; when it fails the universe is returned all the same and the
\* cache is left as it was or holds a leading part of the universe; on the
\* fallback path and on the fatal path the cache file is what it was.
C9_CacheWrite ==
    Resolved =>
        /\ cacheWrite # "none" <=> RemoteOk
        /\ cacheWrite = "ok" => CacheHolds(tickers)
        /\ cacheWrite \notin {"none", "ok"} =>
               /\ pc = "resolved"
               /\ \/ cache = cacheBefore
                  \/ /\ cache.kind = "csv"
                     /\ cache.column = "ticker"
                     /\ IsPrefix(cache.lines, tickers)
        /\ cacheWrite = "none" => cache = cacheBefore

\* 410 tickers fetched over a cache of 460: the cache holds the 410
C9_Witness ==
    /\ pc = "resolved"
    /\ Len(tickers) = 410
    /\ Len(cacheBefore.lines) = 460
    /\ CacheHolds(tickers)

----------------------------------------------------------------------------
(* The whole program: any sequence of runs of run_data_collection over the  *)
(* small universes, the files kept from one run to the next.  The remote    *)
(* source fails or lists too few tickers in these runs (a list it accepts   *)
(* has 400 symbols or more), so the universe comes from the cache.          *)

RunWikiAnswers == {WikiError, WikiNoTable, WikiTable(2, 0)}

RunCaches ==
    {NoCache, BadCache, CacheCsv("ticker", <<>>)}
    \cup { CacheCsv("ticker", u) : u \in SmallUniverses }

Init ==
    /\ pc = "start"
    /\ cache \in RunCaches
    /\ wiki = NoAnswer
    /\ tickers = <<>>
    /\ cacheBefore = cache
    /\ cacheWrite = "none"
    /\ \E f \in {Absent, Garbage} :
          fs = [p \in Paths |-> IF p = FinalPath(StoreTicker) THEN f ELSE Absent]
    /\ ticker = StoreTicker
    /\ data = <<>>
    /\ result = "none"
    /\ before = fs
    /\ prev = NoCall
    /\ crashedAt = "none"
    /\ RunIdle

\* the program is run again
RunAgain ==
    /\ pc \in {"done", "raised"}
    /\ pc' = "start"
    /\ wiki' = NoAnswer
    /\ tickers' = <<>>
    /\ cacheBefore' = cache
    /\ cacheWrite' = "none"
    /\ i' = 0
    /\ fetched' = None
    /\ stats' = NoStats
    /\ pauses' = <<>>
    /\ feedCalls' = 0
    /\ returned' = None
    /\ feed' = NoFeed
    /\ counted' = "none"
    /\ report' = None
    /\ data' = <<>>
    /\ result' = "none"
    /\ before' = fs
    /\ UNCHANGED <<fs, cache, ticker, prev, crashedAt, now>>

Next ==
    \/ Resolve(RunWikiAnswers)
    \/ BeginDownload
    \/ Fetch
    \/ Store
    \/ Skip
    \/ SaveStep
    \/ Tally
    \/ Pause
    \/ Finish
    \/ RunAgain

Spec == Init /\ [][Next]_vars

\* the cache gives no universe: missing, not parseable, without the
\* column 'ticker', or without any line
CacheUnusable(file) ==
    file.kind # "csv" \/ file.column # "ticker" \/ file.lines = <<>>

\* C10 (fatal resolution failure): once the remote attempt has failed and
\* the cache gives no universe, the run has raised, and it has called the
\* feed for no symbol, changed no file of the price directory and returned
\* no statistics.
C10_FatalResolution ==
    (pc # "start" /\ ~RemoteOk /\ CacheUnusable(cacheBefore)) =>
        /\ pc = "raised"
        /\ feedCalls = 0
        /\ fs = before
        /\ stats = NoStats
        /\ returned = None

\* two tickers extracted, no cache file: the run has raised
C10_Witness ==
    /\ pc = "raised"
    /\ wiki.kind = "table"
    /\ Len(ExtractTickers(wiki.trs)) = 2
    /\ cacheBefore.kind = "absent"

----------------------------------------------------------------------------
(* Properties of the run *)

\* the steps of one run after the universe is resolved
RunStep ==
    \/ BeginDownload
    \/ Fetch
    \/ Store
    \/ Skip
    \/ SaveStep
    \/ Tally
    \/ Pause
    \/ Finish

\* The program is sequential and nothing in download_all_tickers waits
\* for anything but a sleep: a step that can be taken is taken.
FairSpec == Spec /\ WF_vars(RunStep)

\* the symbols whose outcome is counted
Tallied == stats.success + stats.protected + stats.empty + stats.failed

\* the universe is resolved and the run is not over
Running == pc \notin {"start", "raised", "done"}

\* C11 (the run always completes): once the universe is resolved the run
\* never raises, it reaches its end, and at its end every symbol of the
\* universe was fetched and counted, in order, the statistics are returned
\* and the coverage shortfalls are warnings in the log.
C11_RunCompletes ==
    /\ [](Running => (i <= Len(tickers) /\ feedCalls = i /\ returned = None))
    /\ []((pc = "raised") => feedCalls = 0)
    /\ []((pc = "done") =>
            /\ i = Len(tickers)
            /\ feedCalls = Len(tickers)
            /\ Tallied = Len(tickers)
            /\ returned = Some(stats)
            /\ ~report.none)
    /\ [][(pc = "fetched" /\ pc' # pc) => ticker = sanitize_ticker(tickers[i])]_vars
    /\ (pc = "resolved") ~> (pc = "done")

\* a run over three symbols in which nothing was saved: the feed failed or
\* the writes failed for every symbol, over an unreadable file, and both
\* warnings were logged
C11_Witness ==
    /\ pc = "done"
    /\ Len(tickers) = 3
    /\ stats.failed = 3
    /\ before[FinalPath(StoreTicker)] = Garbage
    /\ report.val.warnings = {"count", "percent"}

\* the feed's answer for the current symbol
FeedEmpty == feed.kind = "frame" /\ Len(feed.df) = 0
FeedRaised == feed.kind = "raise"

\* C12 as stated (outcome classification): when a symbol's outcome is
\* counted, a feed answer of zero rows has incremented 'empty', an
\* exception of the feed 'failed', and the store's "saved", "protected" and
\* "error" have incremented 'success', 'protected' and 'failed'.
C12_Classification_AsStated ==
    pc = "pause" =>
        /\ FeedEmpty => counted = "empty"
        /\ FeedRaised => counted = "failed"
        /\ result = "saved" => counted = "success"
        /\ result = "protected" => counted = "protected"
        /\ result = "error" => counted = "failed"

\* what the program does with a feed answer of zero rows: the symbol is
\* counted as failed, and 'empty' is still 0
C12_Witness ==
    /\ pc = "pause"
    /\ FeedEmpty
    /\ counted = "failed"
    /\ stats.failed = 1
    /\ stats.empty = 0

\* C13 (coverage arithmetic): at the end of a run the effective count is
\* saved + protected, which leaves out every empty and every failed
\* symbol, and the coverage is effective / total * 100, a fraction whose
\* denominator is never 0; for a tally with total = 0 the coverage is 0.
C13_Coverage ==
    /\ coverage_pct(NoStats) = [num |-> 0, den |-> 1]
    /\ pc = "done" =>
          /\ report.val.effective_ok = stats.success + stats.protected
          /\ report.val.effective_ok = stats.total - stats.empty - stats.failed
          /\ report.val.coverage_pct.den > 0
          /\ report.val.coverage_pct.num * stats.total
                 = report.val.effective_ok * 100 * report.val.coverage_pct.den
          /\ "percent" \in report.val.warnings
                 <=> report.val.effective_ok * 100 < MIN_COVERAGE_PERCENT * stats.total

\* three symbols: one saved, one protected, one failed; coverage 200/3
C13_Witness ==
    /\ pc = "done"
    /\ stats = [total |-> 3, success |-> 1, protected |-> 1, failed |-> 1, empty |-> 0]
    /\ report.val.effective_ok = 2
    /\ report.val.coverage_pct = [num |-> 200, den |-> 3]

\* the stage of the current symbol: Fetching once the feed was called,
\* Saving inside save_ticker_data, Terminal once its outcome is counted,
\* Pending for the symbols not yet taken from the list
Stage ==
    CASE pc = "fetched" -> "Fetching"
      [] pc \in InSave -> "Saving"
      [] pc = "pause" -> "Terminal"
      [] OTHER -> "Pending"

\* the feed answered with a frame that has rows, at least 80% of the
\* history window
FeedUsable ==
    /\ feed.kind = "frame"
    /\ Len(feed.df) > 0
    /\ ~BelowMinimum(Len(feed.df), HISTORY_TRADING_DAYS)

\* the moves of a symbol from one stage to the next
StageMove ==
    \/ Stage' = Stage
    \/ /\ Stage = "Pending" /\ Stage' = "Fetching"
       /\ Tallied = i /\ Len(pauses) = i
       /\ i' = i + 1
    \/ /\ Stage = "Fetching" /\ Stage' = "Saving"
       /\ FeedUsable
       /\ data' = feed.df
    \/ /\ Stage = "Fetching" /\ Stage' = "Terminal"
       /\ ~FeedUsable
       /\ counted' \in {"empty", "failed"}
       /\ fs' = fs
    \/ /\ Stage = "Saving" /\ Stage' = "Terminal"
       /\ result \in {"saved", "protected", "error"}
       /\ counted' = CounterOf(result)
    \/ /\ Stage = "Terminal" /\ Stage' = "Pending"

\* C14 (per-symbol state machine): a symbol goes from Pending to Fetching,
\* then either to Saving and from there to one counted outcome of the
\* store, or directly to a counted Empty/Error without the store being
\* entered; the store is entered only with the frame the feed gave, which
\* has rows and is not below 80% of the history window; and a symbol is
\* fetched only when every symbol before it is counted and paused for.
C14_SymbolStateMachine ==
    /\ [][StageMove]_vars
    /\ [](Stage = "Saving" => (FeedUsable /\ data = feed.df))
    /\ [](Stage \in {"Fetching", "Saving"} => (Tallied = i - 1 /\ counted = "none"))
    /\ [](Stage = "Terminal" => (Tallied = i /\ counted # "none"))

\* the second symbol being saved after the first was counted as failed for
\* a frame below the minimum length
C14_Witness ==
    /\ pc = "sv_write"
    /\ i = 2
    /\ stats.failed = 1
    /\ FeedUsable
    /\ Len(data) = HISTORY_TRADING_DAYS - 2

\* the file the call found exists but gives no series to compare with:
\* bytes that do not parse, or a CSV without rows
Unreadable(f) == Exists(f) /\ ~HasSeries(f)

\* C15 (unreadable existing file): over a file that exists but cannot be
\* read or compared the call applies no protection rule and goes on to
\* the atomic write as if there were no file: it never answers
\* "protected", it returns, and unless the write itself fails it returns
\* "saved" with the final path reading back as the new series; until the
\* replace the unreadable file stays as it was.
C15_UnreadableExisting ==
    (CallOpen /\ Unreadable(OldFile)) =>
        /\ CheckExisting(OldFile, data) = "write"
        /\ CheckExisting(OldFile, data) = CheckExisting(Absent, data)
        /\ result # "protected"
        /\ CurFile = OldFile \/ CurFile = to_csv(data)
        /\ pc = "sv_ret" => result \in {"saved", "error"}
        /\ (pc = "sv_ret" /\ result = "saved") =>
               /\ CurFile = to_csv(data)
               /\ read_csv(CurFile) = data
               /\ fs[TempPath(ticker)] = Absent
        /\ (pc = "sv_ret" /\ result = "error") => CurFile = OldFile

\* bytes that do not parse replaced by the new series
C15_Witness ==
    /\ pc = "sv_ret"
    /\ OldFile = Garbage
    /\ result = "saved"
    /\ CurFile = to_csv(data)

\* C16 (write failure): when the write of the temporary file or the
\* replace fails, the final path still holds what it held when the call
\* began, the next step of the call removes the temporary file if there
\* is one and returns "error", and "error" is returned in no other way;
\* after it the temporary path is empty.
C16_WriteFailure ==
    /\ [](pc = "sv_except" => (CurFile = OldFile /\ result = "none"))
    /\ []((pc = "sv_ret" /\ result = "error") =>
            /\ CurFile = OldFile
            /\ fs[TempPath(ticker)] = Absent
            /\ \A t \in PriceKeys : fs[FinalPath(t)] = before[FinalPath(t)])
    /\ [][(pc = "sv_except" /\ pc' \notin {"sv_except", "crashed"}) =>
            (pc' = "sv_ret" /\ result' = "error")]_vars
    /\ [][(result # "error" /\ result' = "error") => pc = "sv_except"]_vars

\* a write failed in a call that found a temporary file left by an
\* interrupted run, over an existing series: the temporary path is empty
\* afterwards and the series is still in place
C16_Witness ==
    /\ pc = "sv_ret"
    /\ result = "error"
    /\ HasSeries(OldFile)
    /\ before[TempPath(ticker)] # Absent
    /\ fs[TempPath(ticker)] = Absent
    /\ CurFile = OldFile

\* the number of long pauses among the first k of this run
RECURSIVE LongPauses(_)
LongPauses(k) ==
    IF k = 0 THEN 0
    ELSE LongPauses(k - 1) + (IF pauses[k] = "long" THEN 1 ELSE 0)

\* C17 (rate limiting): one pause follows every processed symbol, also
\* the last one and the failed ones; it comes after the symbol is counted
\* and before the next one is fetched; the k-th pause is the long one
\* exactly when k is a multiple of the batch size; a run over n symbols
\* has made n pauses, n \div batch size of them long.
C17_RateLimiting ==
    /\ pc \in {"loop", "done"} => (Len(pauses) = i /\ Tallied = i)
    /\ Stage \in {"Fetching", "Saving"} => (Len(pauses) = i - 1 /\ Tallied = i - 1)
    /\ Stage = "Terminal" => (Len(pauses) = i - 1 /\ Tallied = i)
    /\ \A k \in 1..Len(pauses) :
          /\ pauses[k] \in {"long", "short"}
          /\ pauses[k] = "long" <=> k % MAX_TICKERS_PER_BATCH = 0
    /\ pc = "done" =>
          /\ Len(pauses) = Len(tickers)
          /\ LongPauses(Len(pauses)) = Len(tickers) \div MAX_TICKERS_PER_BATCH

\* three symbols, batches of two, one of them failed: short, long, short
C17_Witness ==
    /\ pc = "done"
    /\ Len(tickers) = 3
    /\ pauses = <<"short", "long", "short">>
    /\ stats.failed >= 1

----------------------------------------------------------------------------
(* Successive runs on later and later days, for one symbol, with a feed    *)
(* and a disk that behave well: the feed returns every trading bar from    *)
(* the run's start_date up to the run's date, and no write fails.          *)

\* the runs take place on days Today .. Today + RefreshDays, one or up to
\* MaxGap days after the run before
RefreshDays == 8
MaxGap == 2

\* five trading days, then two days without bars
IsTradingDay(d) == d % 7 \notin {5, 6}

\* yf.download(ticker, start=start_date): the bars of the trading days
\* from start to today
RECURSIVE TradingBars(_, _)
TradingBars(start, today) ==
    IF start > today THEN <<>>
    ELSE (IF IsTradingDay(start) THEN <<Row(start)>> ELSE <<>>)
             \o TradingBars(start + 1, today)

GoodFeed(start, today) == FeedFrame(TradingBars(start, today))

FetchGood == FetchAny({GoodFeed(start_date(now), now)})

\* save_ticker_data when no write fails
SaveStepOk ==
    \/ SaveCheck
    \/ ToCsvOpen
    \/ ToCsvDone
    \/ Replace

InitRefresh ==
    /\ pc = "start"
    /\ cache = CacheCsv("ticker", << StoreTicker >>)
    /\ wiki = NoAnswer
    /\ tickers = <<>>
    /\ cacheBefore = cache
    /\ cacheWrite = "none"
    /\ fs = [p \in Paths |-> Absent]
    /\ ticker = StoreTicker
    /\ data = <<>>
    /\ result = "none"
    /\ before = fs
    /\ prev = NoCall
    /\ crashedAt = "none"
    /\ RunIdle

\* the program is run again on a later day
NextDay ==
    /\ pc = "done"
    /\ \E gap \in 1..MaxGap :
          /\ now + gap <= Today + RefreshDays
          /\ now' = now + gap
    /\ pc' = "start"
    /\ wiki' = NoAnswer
    /\ tickers' = <<>>
    /\ cacheBefore' = cache
    /\ cacheWrite' = "none"
    /\ i' = 0
    /\ fetched' = None
    /\ stats' = NoStats
    /\ pauses' = <<>>
    /\ feedCalls' = 0
    /\ returned' = None
    /\ feed' = NoFeed
    /\ counted' = "none"
    /\ report' = None
    /\ data' = <<>>
    /\ result' = "none"
    /\ before' = fs
    /\ UNCHANGED <<fs, cache, ticker, prev, crashedAt>>

NextRefresh ==
    \/ Resolve(RunWikiAnswers)
    \/ BeginDownload
    \/ FetchGood
    \/ Store
    \/ SaveStepOk
    \/ Tally
    \/ Pause
    \/ Finish
    \/ NextDay

SpecRefresh == InitRefresh /\ [][NextRefresh]_vars

\* the persisted series of the symbol
Persisted == fs[FinalPath(StoreTicker)]

\* the newest bar the feed has on day d
RECURSIVE NewestBar(_)
NewestBar(d) == IF IsTradingDay(d) THEN d ELSE NewestBar(d - 1)

\* the persisted series may be this many days older than the newest bar
\* at the end of a run
MaxStale == 2

\* C18 as stated (progress of refreshes), over the days of the model: with
\* the clock advancing and the feed behaving well, a readable persisted
\* series does not stay behind: at the end of a run its last date is the
\* newest bar of the feed, or at most MaxStale days older.
C18_RefreshProgress_AsStated ==
    (pc = "done" /\ HasSeries(Persisted)) =>
        FileLast(Persisted) >= NewestBar(now) - MaxStale

\* C18, what the program does: once the run's start_date has passed the
\* first date of the persisted series, every fetch starts later than the
\* series, is answered "protected", and the persisted series never changes
\* again, on any later day.
Frozen == HasSeries(Persisted) /\ FileFirst(Persisted) < start_date(now)

C18_FrozenForever ==
    /\ [][Frozen => (Frozen' /\ Persisted' = Persisted)]_vars
    /\ []((Frozen /\ pc = "pause") => counted = "protected")

\* three bars newer than the persisted series were fetched on this day,
\* and the fetch was answered "protected"
C18_Witness ==
    /\ pc = "pause"
    /\ Frozen
    /\ counted = "protected"
    /\ FileLast(Persisted) = NewestBar(now) - 3
    /\ FileLast(Persisted) < last_date(feed.df)

----------------------------------------------------------------------------
(* Properties of the tally *)

\* the symbols of this run whose iteration reached the counting
Processed == IF Stage \in {"Fetching", "Saving"} THEN i - 1 ELSE i

Counters == {"success", "protected", "empty", "failed"}

\* C19 (tally partition): from the start of the pass on, total is the size
\* of the universe and the four counters add up to the symbols processed
\* so far, so to total at the end; a step of the pass that changes the
\* tally adds 1 to exactly one counter and leaves the others, so no counter
\* ever decreases.
C19_TallyPartition ==
    /\ [](pc \in {"loop", "fetched", "pause", "done"} \cup InSave =>
            /\ stats.total = Len(tickers)
            /\ Tallied = Processed
            /\ \A c \in Counters : stats[c] \in 0..Processed)
    /\ [](pc = "done" =>
            /\ Tallied = stats.total
            /\ returned.val.success + returned.val.protected
                   + returned.val.empty + returned.val.failed = Len(tickers))
    /\ [][(stats' # stats /\ pc \notin {"resolved", "done", "raised"}) =>
            /\ stats'.total = stats.total
            /\ \E c \in Counters :
                  /\ stats'[c] = stats[c] + 1
                  /\ \A o \in Counters \ {c} : stats'[o] = stats[o]]_vars

\* every counter the program can increment was incremented in one run
C19_Witness ==
    /\ pc = "done"
    /\ stats.total = 3
    /\ stats.success = 1
    /\ stats.protected = 1
    /\ stats.failed = 1

\* config.py, line 25: the history window the program ships with
ShippedWindow == 500

\* C20 (minimum persisted length): starting from a price directory without
\* any series, every series at a final path has at least 80% of
\* HISTORY_TRADING_DAYS rows, after any number of runs; every change of a
\* final path puts there the whole fetched series, which passed the
\* fetcher's length check; with the shipped window of 500 days that check
\* lets through exactly the frames of 400 rows or more.
C20_MinimumLength ==
    /\ [](\A t \in PriceKeys :
            fs[FinalPath(t)].kind = "csv" =>
                /\ fs[FinalPath(t)].complete
                /\ ~BelowMinimum(Len(fs[FinalPath(t)].lines), HISTORY_TRADING_DAYS))
    /\ [][\A t \in PriceKeys :
            fs'[FinalPath(t)] # fs[FinalPath(t)] =>
                /\ fs'[FinalPath(t)] = to_csv(data)
                /\ ~fetched.none /\ data = fetched.val
                /\ ~TooShort(data)]_vars
    /\ [](\A n \in {0, 1, 399, 400, 401, ShippedWindow} :
            BelowMinimum(n, ShippedWindow) <=> n < 400)

\* a series of exactly 80% of the window persisted at the end of a run
C20_Witness ==
    /\ pc = "done"
    /\ fs[FinalPath(StoreTicker)].kind = "csv"
    /\ Len(fs[FinalPath(StoreTicker)].lines) * 10 = HISTORY_TRADING_DAYS * 8

====
